---- MODULE Spec2Model ----
(***************************************************************************)
(* The wheel-of-names component (src/src/components/WheelOfNames.tsx with  *)
(* its names list, src/src/components/DragDropNamesList.tsx) as a state    *)
(* machine: the React state cells are the variables, every event handler   *)
(* and every timer callback is one action.                                 *)
(*                                                                         *)
(* Conventions of the model                                                *)
(*  - a text (a name, the input box) is a sequence of one-character        *)
(*    strings, so that trim() is computed and not assumed;                 *)
(*  - angles are whole degrees; the two Math.random() draws of spinWheel   *)
(*    are the parameters of the action, chosen from the draw sets below;   *)
(*  - spinTimer counts tenths of a second, spinProgress counts             *)
(*    1/ProgressScale of a percent, so that the per-tick increments        *)
(*    0.1 and 100 / (animationDuration / 100) are whole numbers;           *)
(*  - setTimeout/setInterval are records in the queue `timers`, kept in    *)
(*    registration order.  A timeout may fire only when no timeout         *)
(*    registered before it has a delay that is not longer (the browser     *)
(*    fires timers by deadline, ties by registration).  The three          *)
(*    intervals of a spin live exactly as long as its duration timeout,    *)
(*    whose callback clears them, and are part of that record;             *)
(*  - `events` holds the effects of the spin engine in the last step (the  *)
(*    rejection toast, the sounds, the speech and the winner toast) and    *)
(*    the toast of addName; the confirmation toasts of the other handlers  *)
(*    are not recorded.                                                    *)
(*    `lastStep` what the last step was; the field `discarded` of a timer  *)
(*    record notes that resetWheel ran after its spin was started, the     *)
(*    field `outcome` the winner its rotation pointed at when it started.  *)
(*    These, and the count `userSteps`, do not influence any handler.      *)
(*  - wheelRef's DOM style/class updates are not React state and are left  *)
(*    out, so is the 100 ms timeout that only touches them.                *)
(***************************************************************************)
EXTENDS Integers, Sequences, FiniteSets, TLC

VARIABLES
    names,              \* useState<string[]>            (line 35)
    isSpinning,         \* line 37
    winner,             \* line 38, NoWinner for null
    currentRotation,    \* line 39
    showConfetti,       \* line 41
    highlightedSegment, \* line 42, NoSegment for null
    spinIntensity,      \* line 43
    spinProgress,       \* line 44
    isResetting,        \* line 45
    isMuted,            \* line 48
    spinTimer,          \* line 49
    spinDurationLimit,  \* line 51
    showWinnerModal,    \* line 67
    speechEnabled,      \* line 68
    spinWheelSpeech,    \* speechEnabled as seen by the speakText that the
                        \* memoised spinWheel closure holds (lines 98-121, 455)
    timers,             \* pending setTimeout/setInterval registrations
    events,             \* effects emitted by the last step
    userSteps,          \* number of user inputs so far
    lastStep,           \* what the last step was: the kind of input or of
                        \* timer callback, and the spin the callback was of
    animationType,      \* line 40
    volume,             \* line 47, in tenths
    isDarkMode,         \* line 59
    storage,            \* window.localStorage: key -> text, Absent if unset
    audioAvailable,     \* whether new AudioContext() succeeds (lines 151-158)
    speechAvailable     \* 'speechSynthesis' in window (line 101)

vars == <<names, isSpinning, winner, currentRotation, showConfetti,
          highlightedSegment, spinIntensity, spinProgress, isResetting,
          isMuted, spinTimer, spinDurationLimit, showWinnerModal,
          speechEnabled, spinWheelSpeech, timers, events, userSteps,
          lastStep, animationType, volume, isDarkMode, storage,
          audioAvailable, speechAvailable>>

-----------------------------------------------------------------------------
(* Bounds of the model *)

\* user inputs (clicks, key presses, drags) in one behaviour; the timer
\* callbacks are not counted
MaxUserSteps == 4
\* interval callbacks modelled per spin
MaxTicks == 1

-----------------------------------------------------------------------------
(* Program constants *)

FullTurn == 360
MaxNames == 20
MinNamesToSpin == 2
DefaultSpinDurationLimit == 10
MinSpinDurationLimit == 3
MaxSpinDurationLimit == 60
CelebrateDelay == 500
ConfettiDelay == 5000
ResetDelay == 600
MsPerSecond == 1000
TickMs == 100
TimerStepTenths == 1
FullProgress == 100
\* spinProgress is kept in 1/ProgressScale percent: a common multiple of the
\* duration limits the model uses, so that 10 / spinDurationLimit is whole
ProgressScale == MinSpinDurationLimit * MaxSpinDurationLimit
NoSegment == -1
\* volume is kept in tenths: 0.5 at the start, the slider runs from 0 to 1
\* in steps of 0.1, the keys change it by 0.1
DefaultVolume == 5
MaxVolume == 10
VolumeStep == 1

NoWinner == <<>>

Alice == <<"A", "l", "i", "c", "e">>
Bob == <<"B", "o", "b">>
Charlie == <<"C", "h", "a", "r", "l", "i", "e">>
Diana == <<"D", "i", "a", "n", "a">>
Eve == <<"E", "v", "e">>

InitialNames == <<Alice, Bob, Charlie, Diana>>

\* what the user may type into the input box
TypedTexts == { <<" ">>, <<" ">> \o Eve \o <<" ">>, Bob }

\* intensityConfig of spinWheel
intensityConfig ==
    [ gentle |-> [minSpins |-> 2, maxSpins |-> 4],
      normal |-> [minSpins |-> 3, maxSpins |-> 6],
      wild   |-> [minSpins |-> 5, maxSpins |-> 8] ]

Intensities == {"gentle", "normal", "wild"}

\* spins * 360 for the draws of `spins` the model makes: the least value
SpinDraws(intensity) ==
    LET config == intensityConfig[intensity]
    IN  { config.minSpins * FullTurn }

\* spins * 360 for every draw of `spins` in steps of half a turn, from
\* minSpins up to but not maxSpins
AllSpinDraws(intensity) ==
    LET config == intensityConfig[intensity]
    IN  { half * (FullTurn \div 2) :
              half \in (2 * config.minSpins)..(2 * config.maxSpins - 1) }

\* the draws of `randomAngle` the model makes, in [0, 360): one that stops
\* the pointer in the last segment and one that stops it in the first
AngleDraws == {45, 315}

\* every whole value of `randomAngle`
AllAngleDraws == 0..(FullTurn - 1)

\* the draws of Math.floor(Math.random() * names.length) of the highlight
\* interval the model makes: the first and the last segment
HighlightDraws(n) == {0, n - 1}

AnimationTypes == {"classic", "elastic", "bounce", "smooth"}

\* values of the Animation Style select the model sets
AnimationChoices == {"classic"}

\* values of the volume slider the model sets
VolumeChoices == {0, MaxVolume}

\* values of the duration slider the model sets
DurationChoices == {MinSpinDurationLimit, MaxSpinDurationLimit}

-----------------------------------------------------------------------------
(* Pure helpers *)

IsSpace(c) == c = " "

RECURSIVE TrimStart(_)
TrimStart(s) ==
    IF s # <<>> /\ IsSpace(Head(s)) THEN TrimStart(Tail(s)) ELSE s

RECURSIVE TrimEnd(_)
TrimEnd(s) ==
    IF s # <<>> /\ IsSpace(s[Len(s)])
    THEN TrimEnd(SubSeq(s, 1, Len(s) - 1))
    ELSE s

\* String.prototype.trim
Trim(s) == TrimEnd(TrimStart(s))

\* Array.prototype.includes
Includes(list, x) == \E i \in 1..Len(list) : list[i] = x

\* prev.filter((_, i) => i !== index), index counted from 0
RemoveAt(list, index) ==
    [i \in 1..(Len(list) - 1) |-> IF i <= index THEN list[i] ELSE list[i + 1]]

\* arrayMove of @dnd-kit/sortable: the item at `from` is taken out and put
\* back at `to` (both counted from 0)
ArrayMove(list, from, to) ==
    LET item == list[from + 1]
        rest == RemoveAt(list, from)
    IN  SubSeq(rest, 1, to) \o <<item>> \o SubSeq(rest, to + 1, Len(rest))

\* list[index] of JavaScript, index counted from 0: undefined (here the
\* empty text) outside the list
ArrayAt(list, index) ==
    IF index + 1 \in 1..Len(list) THEN list[index + 1] ELSE <<>>

\* the sequence without its i-th element, i counted from 1
Without(seq, i) == SubSeq(seq, 1, i - 1) \o SubSeq(seq, i + 1, Len(seq))

-----------------------------------------------------------------------------
(* Segments and the winner computation *)

\* a fraction num / den of a degree (360 / names.length need not be whole)
Rat(num, den) == [num |-> num, den |-> den]

\* segments cut in whole degrees
SegmentWholeDegrees(list, index) ==
    LET segmentAngle == Rat(FullTurn \div Len(list), 1)
    IN  [ name       |-> list[index + 1],
          startAngle |-> Rat(index * segmentAngle.num, segmentAngle.den),
          endAngle   |-> Rat((index + 1) * segmentAngle.num, segmentAngle.den) ]

\* createSegments: segment `index` (from 0) of a list of n names
Segment(list, index) ==
    LET segmentAngle == Rat(FullTurn, Len(list))
    IN  [ name       |-> list[index + 1],
          startAngle |-> Rat(index * segmentAngle.num, segmentAngle.den),
          endAngle   |-> Rat((index + 1) * segmentAngle.num, segmentAngle.den) ]

createSegments(list) ==
    IF Len(list) = 0 THEN <<>>
    ELSE [i \in 1..Len(list) |-> Segment(list, i - 1)]

\* (360 - (totalRotation % 360)) % 360
\* the reflection without the outer % 360
NormalizedAngleNoWrap(totalRotation) == FullTurn - (totalRotation % FullTurn)
NormalizedAngleNaive(totalRotation) == totalRotation % FullTurn
NormalizedAngle(totalRotation) ==
    (FullTurn - (totalRotation % FullTurn)) % FullTurn

\* Math.floor(normalizedAngle / segmentAngle) with segmentAngle = 360 / n
\* Math.round in place of Math.floor
WinnerIndexRound(totalRotation, n) ==
    LET segmentAngle == Rat(FullTurn, n)
        scaled == NormalizedAngle(totalRotation) * segmentAngle.den
    IN  (2 * scaled + segmentAngle.num) \div (2 * segmentAngle.num)
WinnerIndexCeil(totalRotation, n) ==
    LET segmentAngle == Rat(FullTurn, n)
        scaled == NormalizedAngle(totalRotation) * segmentAngle.den
    IN  (scaled + segmentAngle.num - 1) \div segmentAngle.num
WinnerIndex(totalRotation, n) ==
    LET segmentAngle == Rat(FullTurn, n)
    IN  (NormalizedAngle(totalRotation) * segmentAngle.den) \div segmentAngle.num

\* currentRotation + (spins * 360) + randomAngle
\* a wheel that keeps its angle within one turn
TotalRotationWrapped(prior, spinDeg, randomAngle) ==
    (prior + spinDeg + randomAngle) % FullTurn
TotalRotation(prior, spinDeg, randomAngle) == prior + spinDeg + randomAngle

-----------------------------------------------------------------------------
(* Sound and speech *)

\* an exception leaving a handler: the statements after it are skipped
Thrown == "throw"

\* isMuted || volume === 0 of playSound
SoundOff == isMuted \/ volume = 0

\* playSound: silent when muted in the render that made it; when creating
\* the AudioContext fails the exception is caught and nothing is played
playSoundUncaught(muted, sound) ==
    IF muted THEN {}
    ELSE IF ~audioAvailable THEN {Thrown}
    ELSE {sound}
playSound(muted, sound) ==
    IF muted THEN {}
    ELSE IF ~audioAvailable THEN {}
    ELSE {sound}

\* speakText: silent when speech was disabled in the render that made it,
\* and when the window has no speechSynthesis
speakTextUnchecked(enabled) ==
    IF ~enabled THEN {}
    ELSE IF ~speechAvailable THEN {Thrown}
    ELSE {"speech:winner"}
speakText(enabled) ==
    IF ~enabled THEN {}
    ELSE IF ~speechAvailable THEN {}
    ELSE {"speech:winner"}

\* the winner celebration sequence after setIsSpinning(false): the sound,
\* the speech and the toast, up to the first exception
Announcement(muted, speech) ==
    LET sound == playSound(muted, "sound:winner")
        spoken == speakText(speech)
    IN  IF Thrown \in sound THEN sound
        ELSE IF Thrown \in spoken THEN sound \cup spoken
        ELSE sound \cup spoken \cup {"toast:We have a winner"}

-----------------------------------------------------------------------------
(* Timer records *)

NoTimer ==
    [ kind |-> "none", delay |-> 0, names |-> <<>>, total |-> 0, limit |-> 0,
      winnerName |-> NoWinner, muted |-> FALSE, speech |-> FALSE,
      ticks |-> 0, discarded |-> FALSE, outcome |-> NoWinner,
      announce |-> {} ]

\* setTimeout(..., animationDuration) of spinWheel together with the three
\* setInterval registrations its callback clears; the fields are what the
\* closures of spinWheel capture.  `outcome` is the entry of the list the
\* total rotation points at when the spin is started, `announce` the
\* announcement the settings call for when the spin is started
\* a spin whose timeout ignores the setting
DurationTimerDefaultDelay(totalRotation) ==
    [ NoTimer EXCEPT !.kind = "duration",
                     !.total = totalRotation,
                     !.delay = DefaultSpinDurationLimit * MsPerSecond,
                     !.names = names,
                     !.limit = spinDurationLimit,
                     !.muted = SoundOff,
                     !.speech = spinWheelSpeech,
                     !.announce = Announcement(SoundOff, speechEnabled),
                     !.outcome = ArrayAt(names,
                                         WinnerIndex(totalRotation, Len(names))) ]
DurationTimer(totalRotation) ==
    [ NoTimer EXCEPT !.kind = "duration",
                     !.total = totalRotation,
                     !.delay = spinDurationLimit * MsPerSecond,
                     !.names = names,
                     !.limit = spinDurationLimit,
                     !.muted = SoundOff,
                     !.speech = spinWheelSpeech,
                     !.announce = Announcement(SoundOff, speechEnabled),
                     !.outcome = ArrayAt(names,
                                         WinnerIndex(totalRotation, Len(names))) ]

\* setTimeout(() => setShowConfetti(false), 5000)
ConfettiTimer(t) ==
    [ NoTimer EXCEPT !.kind = "confetti", !.delay = ConfettiDelay,
                     !.discarded = t.discarded ]

\* setTimeout(<winner celebration sequence>, 500)
CelebrateTimer(t, winnerName) ==
    [ NoTimer EXCEPT !.kind = "celebrate", !.delay = CelebrateDelay,
                     !.winnerName = winnerName, !.muted = t.muted,
                     !.speech = t.speech, !.discarded = t.discarded,
                     !.announce = t.announce ]

\* setTimeout(() => setIsResetting(false), 600)
ResetTimer == [ NoTimer EXCEPT !.kind = "reset", !.delay = ResetDelay ]

\* what `lastStep` keeps: the kind of the step and, of the timer record `t`
\* whose callback ran, whether its spin was discarded, its outcome and
\* the announcement it was to make; `again` marks a resetWheel that follows
\* a resetWheel directly
Step(kind, t) ==
    [ kind |-> kind, discarded |-> t.discarded, outcome |-> t.outcome,
      announce |-> t.announce, again |-> FALSE ]

\* a user input other than a spin request
Input == Step("input", NoTimer)

Pending(kinds) == { i \in 1..Len(timers) : timers[i].kind \in kinds }

\* deadline order of the browser's timer queue
CanFire(i) == \A j \in 1..(i - 1) : timers[j].delay > timers[i].delay

\* useCallback(spinWheel, [names, currentRotation, playSound, animationType,
\* spinIntensity, spinDurationLimit]): the closure, and with it the speakText
\* it calls, is replaced only in a render where one of these changed
SpinWheelDeps ==
    <<names, currentRotation, isMuted, volume, animationType, spinIntensity,
      spinDurationLimit>>

\* a user input, within the model's bound
UserStep ==
    /\ userSteps < MaxUserSteps
    /\ userSteps' = userSteps + 1

Rerender ==
    spinWheelSpeech' =
        IF SpinWheelDeps' # SpinWheelDeps THEN speechEnabled'
        ELSE spinWheelSpeech

-----------------------------------------------------------------------------
(* Local storage *)

\* what getItem gives for a key that was never set
Absent == ""

EmptyStorage ==
    [theme |-> Absent, speechEnabled |-> Absent, spinDurationLimit |-> Absent]

\* parseInt of the texts a duration limit has
ParseInt(text) ==
    CASE text = "3" -> 3
      [] text = "10" -> 10
      [] text = "60" -> 60

\* saved ? parseInt(saved) : 10
InitialSpinDurationLimit(store) ==
    IF store.spinDurationLimit # Absent
    THEN ParseInt(store.spinDurationLimit)
    ELSE DefaultSpinDurationLimit

\* saved ? saved === 'dark' : true
InitialDarkMode(store) ==
    IF store.theme # Absent THEN store.theme = "dark" ELSE TRUE

\* saved ? saved === 'true' : true
InitialSpeechEnabled(store) ==
    IF store.speechEnabled # Absent THEN store.speechEnabled = "true" ELSE TRUE

\* isDarkMode ? 'dark' : 'light'
ThemeText(dark) == IF dark THEN "dark" ELSE "light"

\* speechEnabled.toString()
BooleanText(flag) == IF flag THEN "true" ELSE "false"

\* the two useEffect that write the theme and the speech setting: they run
\* after the first render and after every render that changed the value
StorageAfterEffects(store, dark, speech) ==
    [store EXCEPT !.theme = ThemeText(dark),
                  !.speechEnabled = BooleanText(speech)]

-----------------------------------------------------------------------------
(* Initial state: the useState initialisers, with empty local storage *)

Init ==
    /\ names = InitialNames
    /\ isSpinning = FALSE
    /\ winner = NoWinner
    /\ currentRotation = 0
    /\ showConfetti = FALSE
    /\ highlightedSegment = NoSegment
    /\ spinIntensity = "normal"
    /\ spinProgress = 0
    /\ isResetting = FALSE
    /\ isMuted = FALSE
    /\ spinTimer = 0
    /\ spinDurationLimit = InitialSpinDurationLimit(EmptyStorage)
    /\ showWinnerModal = FALSE
    /\ speechEnabled = InitialSpeechEnabled(EmptyStorage)
    /\ spinWheelSpeech = InitialSpeechEnabled(EmptyStorage)
    /\ timers = <<>>
    /\ events = {}
    /\ userSteps = 0
    /\ lastStep = Step("none", NoTimer)
    /\ animationType = "elastic"
    /\ volume = DefaultVolume
    /\ isDarkMode = InitialDarkMode(EmptyStorage)
    /\ storage = StorageAfterEffects(EmptyStorage,
                                     InitialDarkMode(EmptyStorage),
                                     InitialSpeechEnabled(EmptyStorage))
    /\ audioAvailable = TRUE
    /\ speechAvailable = TRUE

-----------------------------------------------------------------------------
(* spinWheel and its callbacks *)

\* the guard of spinWheel: names.length < 2 rejects the request
NotEnoughNamesEmptyOnly == Len(names) < 1
NotEnoughNames == Len(names) < MinNamesToSpin

\* spinWheel(), the two random draws given
spinWheel(spinDeg, randomAngle) ==
    IF NotEnoughNames
    THEN /\ events' = {"toast:Not enough names"}
         /\ lastStep' = Step("spin:rejected", NoTimer)
         /\ UNCHANGED <<names, isSpinning, winner, currentRotation,
                        showConfetti, highlightedSegment, spinIntensity,
                        spinProgress, isResetting, isMuted, spinTimer,
                        spinDurationLimit, showWinnerModal, speechEnabled,
                        timers>>
    ELSE /\ isSpinning' = TRUE
         /\ winner' = NoWinner
         /\ showConfetti' = FALSE
         /\ highlightedSegment' = NoSegment
         /\ spinTimer' = 0
         /\ events' = playSound(SoundOff, "sound:spin")
         /\ timers' =
                IF Thrown \in playSound(SoundOff, "sound:spin") THEN timers
                ELSE Append(timers,
                         DurationTimer(TotalRotation(currentRotation, spinDeg,
                                                     randomAngle)))
         /\ lastStep' = Step("spin:started", NoTimer)
         /\ UNCHANGED <<names, currentRotation, spinIntensity,
                        spinProgress, isResetting, isMuted, spinDurationLimit,
                        showWinnerModal, speechEnabled>>

\* disabled={isSpinning || names.length < 2} of the two Spin Wheel buttons,
\* names.length >= 2 && !isSpinning of the centre button
SpinDisabledNoGuard == Len(names) < MinNamesToSpin
SpinDisabled == isSpinning \/ Len(names) < MinNamesToSpin

\* a click on a Spin Wheel button or on the centre of the wheel, the random
\* draws taken from the given sets
SpinClick(spinDraws, angleDraws) ==
    /\ UserStep
    /\ IF SpinDisabled
       THEN /\ events' = {}
            /\ lastStep' = Step("spin:ignored", NoTimer)
            /\ UNCHANGED <<names, isSpinning, winner, currentRotation,
                           showConfetti, highlightedSegment, spinIntensity,
                           spinProgress, isResetting, isMuted, spinTimer,
                           spinDurationLimit, showWinnerModal, speechEnabled,
                           timers>>
       ELSE \E spinDeg \in spinDraws, randomAngle \in angleDraws :
                   spinWheel(spinDeg, randomAngle)
    /\ UNCHANGED <<animationType, volume, isDarkMode, storage,
                   audioAvailable, speechAvailable>>
    /\ Rerender

SpinButton == SpinClick(SpinDraws(spinIntensity), AngleDraws)

\* the same click with every draw of Math.random the model distinguishes
SpinButtonAnyDraw == SpinClick(AllSpinDraws(spinIntensity), AllAngleDraws)

\* spinWheel() called with no spin in flight, whatever the length of the
\* list: the call the buttons never make with fewer than two names
SpinWheelCall ==
    /\ UserStep
    /\ ~isSpinning
    /\ \E spinDeg \in SpinDraws(spinIntensity), randomAngle \in AngleDraws :
           spinWheel(spinDeg, randomAngle)
    /\ UNCHANGED <<animationType, volume, isDarkMode, storage,
                   audioAvailable, speechAvailable>>
    /\ Rerender

\* the list whose entry the duration callback announces: the `names` of the
\* render in which the spin was started
RevealNamesCurrent(t) == names
RevealNames(t) == t.names

\* clearInterval of the three intervals: they are gone with the record
ClearIntervals(i) == Without(timers, i)

\* setInterval(() => setHighlightedSegment(floor(random * names.length)), 100)
HighlightTick(i) ==
    /\ i \in Pending({"duration"})
    /\ timers[i].ticks < MaxTicks
    /\ \E segment \in HighlightDraws(Len(timers[i].names)) :
           highlightedSegment' = segment
    /\ timers' = [timers EXCEPT ![i].ticks = @ + 1]
    /\ events' = {}
    /\ lastStep' = Step("highlight", timers[i])
    /\ UNCHANGED <<names, isSpinning, winner, currentRotation,
                   showConfetti, spinIntensity, spinProgress, isResetting,
                   isMuted, spinTimer, spinDurationLimit, showWinnerModal,
                   speechEnabled>>
    /\ UNCHANGED userSteps
    /\ UNCHANGED <<animationType, volume, isDarkMode, storage,
                   audioAvailable, speechAvailable>>
    /\ Rerender

\* 100 / (animationDuration / 100) percent, in 1/ProgressScale percent
ProgressStep(limit) ==
    (FullProgress * ProgressScale) \div ((limit * MsPerSecond) \div TickMs)

\* setInterval(() => setSpinProgress(prev => min(prev + step, 100)), 100)
ProgressTick(i) ==
    /\ i \in Pending({"duration"})
    /\ timers[i].ticks < MaxTicks
    /\ LET newProgress == spinProgress + ProgressStep(timers[i].limit)
       IN  spinProgress' = IF newProgress > FullProgress * ProgressScale
                           THEN FullProgress * ProgressScale
                           ELSE newProgress
    /\ timers' = [timers EXCEPT ![i].ticks = @ + 1]
    /\ events' = {}
    /\ lastStep' = Step("progress", timers[i])
    /\ UNCHANGED <<names, isSpinning, winner, currentRotation,
                   showConfetti, highlightedSegment, spinIntensity,
                   isResetting, isMuted, spinTimer, spinDurationLimit,
                   showWinnerModal, speechEnabled>>
    /\ UNCHANGED userSteps
    /\ UNCHANGED <<animationType, volume, isDarkMode, storage,
                   audioAvailable, speechAvailable>>
    /\ Rerender

\* setInterval(() => setSpinTimer(prev => min(prev + 0.1, limit)), 100),
\* in tenths of a second
TimerTick(i) ==
    /\ i \in Pending({"duration"})
    /\ timers[i].ticks < MaxTicks
    /\ LET newTimer == spinTimer + TimerStepTenths
           limitTenths == timers[i].limit * (MsPerSecond \div TickMs)
       IN  spinTimer' = IF newTimer > limitTenths THEN limitTenths ELSE newTimer
    /\ timers' = [timers EXCEPT ![i].ticks = @ + 1]
    /\ events' = {}
    /\ lastStep' = Step("timer", timers[i])
    /\ UNCHANGED <<names, isSpinning, winner, currentRotation,
                   showConfetti, highlightedSegment, spinIntensity,
                   spinProgress, isResetting, isMuted, spinDurationLimit,
                   showWinnerModal, speechEnabled>>
    /\ UNCHANGED userSteps
    /\ UNCHANGED <<animationType, volume, isDarkMode, storage,
                   audioAvailable, speechAvailable>>
    /\ Rerender

\* the callback of setTimeout(..., animationDuration): the winner is revealed
DurationTimeout(i) ==
    /\ i \in Pending({"duration"})
    /\ CanFire(i)
    /\ LET t == timers[i]
           list == RevealNames(t)
           winnerIndex == WinnerIndex(t.total, Len(list))
           winnerName == ArrayAt(list, winnerIndex)
       IN  /\ spinProgress' = 0
           /\ spinTimer' = 0
           /\ winner' = winnerName
           /\ highlightedSegment' = winnerIndex
           /\ currentRotation' = t.total
           /\ showConfetti' = TRUE
           /\ showWinnerModal' = TRUE
           /\ timers' = ClearIntervals(i)
                            \o <<ConfettiTimer(t), CelebrateTimer(t, winnerName)>>
           /\ lastStep' = Step(t.kind, t)
    /\ events' = {}
    /\ UNCHANGED <<names, isSpinning, spinIntensity, isResetting,
                   isMuted, spinDurationLimit, speechEnabled>>
    /\ UNCHANGED userSteps
    /\ UNCHANGED <<animationType, volume, isDarkMode, storage,
                   audioAvailable, speechAvailable>>
    /\ Rerender

\* the effects of the winner celebration sequence of a spin
Celebration(t) == Announcement(t.muted, t.speech)

\* setIsSpinning(false) of the winner celebration sequence
SpinningLeftOn == isSpinning
SpinningAfterCelebration == FALSE

\* the callback of setTimeout(<winner celebration sequence>, 500)
CelebrateTimeout(i) ==
    /\ i \in Pending({"celebrate"})
    /\ CanFire(i)
    /\ isSpinning' = SpinningAfterCelebration
    /\ events' = Celebration(timers[i])
    /\ timers' = Without(timers, i)
    /\ lastStep' = Step(timers[i].kind, timers[i])
    /\ UNCHANGED <<names, winner, currentRotation, showConfetti,
                   highlightedSegment, spinIntensity, spinProgress,
                   isResetting, isMuted, spinTimer, spinDurationLimit,
                   showWinnerModal, speechEnabled>>
    /\ UNCHANGED userSteps
    /\ UNCHANGED <<animationType, volume, isDarkMode, storage,
                   audioAvailable, speechAvailable>>
    /\ Rerender

\* the callback of setTimeout(() => setShowConfetti(false), 5000)
ConfettiTimeout(i) ==
    /\ i \in Pending({"confetti"})
    /\ CanFire(i)
    /\ showConfetti' = FALSE
    /\ events' = {}
    /\ timers' = Without(timers, i)
    /\ lastStep' = Step(timers[i].kind, timers[i])
    /\ UNCHANGED <<names, isSpinning, winner, currentRotation,
                   highlightedSegment, spinIntensity, spinProgress,
                   isResetting, isMuted, spinTimer, spinDurationLimit,
                   showWinnerModal, speechEnabled>>
    /\ UNCHANGED userSteps
    /\ UNCHANGED <<animationType, volume, isDarkMode, storage,
                   audioAvailable, speechAvailable>>
    /\ Rerender

-----------------------------------------------------------------------------
(* resetWheel and the handlers that call it *)

\* resetWheel leaves every registered timer and interval in place; the
\* records of the spins in flight are only marked as discarded
MarkDiscarded(queue) ==
    [i \in 1..Len(queue) |->
        IF queue[i].kind = "reset" THEN queue[i]
        ELSE [queue[i] EXCEPT !.discarded = TRUE]]

\* the timer queue after resetWheel: its own 600 ms timeout is added
TimersAfterReset == Append(MarkDiscarded(timers), ResetTimer)

\* the controls that call resetWheel, as `lastStep` names them
ResetInputs == {"reset:button", "reset:spinagain", "reset:newwheel"}

\* setIsResetting(true)
ResettingToggled == ~isResetting
ResettingAfterReset == TRUE

\* resetWheel(), but for the toast, called by the given control
resetWheel(control) ==
    /\ isResetting' = ResettingAfterReset
    /\ currentRotation' = 0
    /\ winner' = NoWinner
    /\ isSpinning' = FALSE
    /\ showConfetti' = FALSE
    /\ highlightedSegment' = NoSegment
    /\ spinProgress' = 0
    /\ spinTimer' = 0
    /\ animationType' = "elastic"
    /\ spinIntensity' = "normal"
    /\ timers' = TimersAfterReset
    /\ lastStep' = [Step(control, NoTimer) EXCEPT
                       !.again = lastStep.kind \in ResetInputs]

\* the Reset button, disabled={isSpinning || isResetting}
ResetButton ==
    /\ ~(isSpinning \/ isResetting)
    /\ resetWheel("reset:button")
    /\ events' = {}
    /\ UNCHANGED <<names, isMuted, spinDurationLimit,
                   showWinnerModal, speechEnabled>>
    /\ UserStep
    /\ UNCHANGED <<volume, isDarkMode, storage, audioAvailable,
                   speechAvailable>>
    /\ Rerender

\* 'Spin Again' of the winner modal, rendered while a winner is set
SpinAgainButton ==
    /\ showWinnerModal
    /\ winner # NoWinner
    /\ showWinnerModal' = FALSE
    /\ resetWheel("reset:spinagain")
    /\ events' = {}
    /\ UNCHANGED <<names, isMuted, spinDurationLimit, speechEnabled>>
    /\ UserStep
    /\ UNCHANGED <<volume, isDarkMode, storage, audioAvailable,
                   speechAvailable>>
    /\ Rerender

\* 'Awesome!' of the winner modal, or closing the dialog
DismissWinnerModal ==
    /\ showWinnerModal
    /\ showWinnerModal' = FALSE
    /\ events' = {}
    /\ lastStep' = Input
    /\ UNCHANGED <<names, isSpinning, winner, currentRotation,
                   showConfetti, highlightedSegment, spinIntensity,
                   spinProgress, isResetting, isMuted, spinTimer,
                   spinDurationLimit, speechEnabled, timers>>
    /\ UserStep
    /\ UNCHANGED <<animationType, volume, isDarkMode, storage,
                   audioAvailable, speechAvailable>>
    /\ Rerender

\* 'Create New Wheel' of the navbar, never disabled
handleCreateNewWheel ==
    /\ names' = <<>>
    /\ resetWheel("reset:newwheel")
    /\ events' = {}
    /\ UNCHANGED <<isMuted, spinDurationLimit, showWinnerModal,
                   speechEnabled>>
    /\ UserStep
    /\ UNCHANGED <<volume, isDarkMode, storage, audioAvailable,
                   speechAvailable>>
    /\ Rerender

\* the callback of setTimeout(() => setIsResetting(false), 600)
ResetTimeout(i) ==
    /\ i \in Pending({"reset"})
    /\ CanFire(i)
    /\ isResetting' = FALSE
    /\ events' = {}
    /\ timers' = Without(timers, i)
    /\ lastStep' = Step(timers[i].kind, timers[i])
    /\ UNCHANGED <<names, isSpinning, winner, currentRotation,
                   showConfetti, highlightedSegment, spinIntensity,
                   spinProgress, isMuted, spinTimer, spinDurationLimit,
                   showWinnerModal, speechEnabled>>
    /\ UNCHANGED userSteps
    /\ UNCHANGED <<animationType, volume, isDarkMode, storage,
                   audioAvailable, speechAvailable>>
    /\ Rerender

-----------------------------------------------------------------------------
(* The name list *)

\* whether the controls that edit the list are disabled: the input box, the
\* add button and the remove buttons carry disabled={isSpinning}
EditDisabled == isSpinning

\* whether dragging is disabled: the drag handle carries no such guard
DragDisabled == FALSE

\* newName.trim() && !names.includes(newName.trim()) && names.length < 20
AddAcceptedUntrimmed(text) ==
    /\ Trim(text) # <<>>
    /\ ~Includes(names, text)
    /\ Len(names) < MaxNames
AddAcceptedNotEmpty(text) ==
    /\ text # <<>>
    /\ ~Includes(names, Trim(text))
    /\ Len(names) < MaxNames
AddAccepted(text) ==
    /\ Trim(text) # <<>>
    /\ ~Includes(names, Trim(text))
    /\ Len(names) < MaxNames

\* addName() with `text` in the input box (newName): the text is typed and
\* the add button or the Enter key is pressed; the box is emptied on success
addName(text) ==
    /\ ~EditDisabled
    /\ IF AddAccepted(text)
       THEN /\ names' = Append(names, Trim(text))
            /\ events' = {"toast:Name added"}
       ELSE /\ UNCHANGED names
            /\ events' = IF Includes(names, Trim(text))
                         THEN {"toast:Duplicate name"}
                         ELSE IF Len(names) >= MaxNames
                         THEN {"toast:Maximum reached"}
                         ELSE {}
    /\ lastStep' = Step("add", NoTimer)
    /\ UNCHANGED <<isSpinning, winner, currentRotation, showConfetti,
                   highlightedSegment, spinIntensity, spinProgress,
                   isResetting, isMuted, spinTimer, spinDurationLimit,
                   showWinnerModal, speechEnabled, timers>>
    /\ UserStep
    /\ UNCHANGED <<animationType, volume, isDarkMode, storage,
                   audioAvailable, speechAvailable>>
    /\ Rerender

\* removeName(index), from the remove button of an entry
removeName(index) ==
    /\ ~EditDisabled
    /\ index \in 0..(Len(names) - 1)
    /\ names' = RemoveAt(names, index)
    /\ events' = {}
    /\ lastStep' = Input
    /\ UNCHANGED <<isSpinning, winner, currentRotation, showConfetti,
                   highlightedSegment, spinIntensity, spinProgress,
                   isResetting, isMuted, spinTimer, spinDurationLimit,
                   showWinnerModal, speechEnabled, timers>>
    /\ UserStep
    /\ UNCHANGED <<animationType, volume, isDarkMode, storage,
                   audioAvailable, speechAvailable>>
    /\ Rerender

\* handleDragEnd with the entry at oldIndex dropped on the entry at newIndex,
\* and reorderNames, which it calls
handleDragEnd(oldIndex, newIndex) ==
    /\ ~DragDisabled
    /\ oldIndex \in 0..(Len(names) - 1)
    /\ newIndex \in 0..(Len(names) - 1)
    /\ oldIndex # newIndex
    /\ names' = ArrayMove(names, oldIndex, newIndex)
    /\ events' = {}
    /\ lastStep' = Input
    /\ UNCHANGED <<isSpinning, winner, currentRotation, showConfetti,
                   highlightedSegment, spinIntensity, spinProgress,
                   isResetting, isMuted, spinTimer, spinDurationLimit,
                   showWinnerModal, speechEnabled, timers>>
    /\ UserStep
    /\ UNCHANGED <<animationType, volume, isDarkMode, storage,
                   audioAvailable, speechAvailable>>
    /\ Rerender

-----------------------------------------------------------------------------
(* Settings *)

\* onValueChange of the Spin Duration Limit slider
setSpinDurationLimit(limit) ==
    /\ limit # spinDurationLimit
    /\ spinDurationLimit' = limit
    /\ events' = {}
    /\ lastStep' = Input
    /\ UNCHANGED <<names, isSpinning, winner, currentRotation,
                   showConfetti, highlightedSegment, spinIntensity,
                   spinProgress, isResetting, isMuted, spinTimer,
                   showWinnerModal, speechEnabled, timers>>
    /\ UserStep
    /\ UNCHANGED <<animationType, volume, isDarkMode, storage,
                   audioAvailable, speechAvailable>>
    /\ Rerender

\* onClick of the text-to-speech button of the settings dialog, and the
\* effect that saves the setting
toggleSpeech ==
    /\ speechEnabled' = ~speechEnabled
    /\ events' = {}
    /\ lastStep' = Input
    /\ UNCHANGED <<names, isSpinning, winner, currentRotation,
                   showConfetti, highlightedSegment, spinIntensity,
                   spinProgress, isResetting, isMuted, spinTimer,
                   spinDurationLimit, showWinnerModal, timers>>
    /\ UserStep
    /\ storage' = StorageAfterEffects(storage, isDarkMode, speechEnabled')
    /\ UNCHANGED <<animationType, volume, isDarkMode, audioAvailable,
                   speechAvailable>>
    /\ Rerender

\* toggleMute(), from the mute button or the M key
toggleMute ==
    /\ isMuted' = ~isMuted
    /\ events' = {}
    /\ lastStep' = Input
    /\ UNCHANGED <<names, isSpinning, winner, currentRotation,
                   showConfetti, highlightedSegment, spinIntensity,
                   spinProgress, isResetting, spinTimer, spinDurationLimit,
                   showWinnerModal, speechEnabled, timers>>
    /\ UserStep
    /\ UNCHANGED <<animationType, volume, isDarkMode, storage,
                   audioAvailable, speechAvailable>>
    /\ Rerender

\* onValueChange of the Spin Intensity select,
\* disabled={isSpinning || isResetting}
setSpinIntensity(intensity) ==
    /\ ~(isSpinning \/ isResetting)
    /\ intensity # spinIntensity
    /\ spinIntensity' = intensity
    /\ events' = {}
    /\ lastStep' = Input
    /\ UNCHANGED <<names, isSpinning, winner, currentRotation,
                   showConfetti, highlightedSegment, spinProgress,
                   isResetting, isMuted, spinTimer, spinDurationLimit,
                   showWinnerModal, speechEnabled, timers>>
    /\ UserStep
    /\ UNCHANGED <<animationType, volume, isDarkMode, storage,
                   audioAvailable, speechAvailable>>
    /\ Rerender

\* onValueChange of the Animation Style select,
\* disabled={isSpinning || isResetting}
setAnimationType(type) ==
    /\ ~(isSpinning \/ isResetting)
    /\ type # animationType
    /\ animationType' = type
    /\ events' = {}
    /\ lastStep' = Input
    /\ UNCHANGED <<names, isSpinning, winner, currentRotation,
                   showConfetti, highlightedSegment, spinIntensity,
                   spinProgress, isResetting, isMuted, spinTimer,
                   spinDurationLimit, showWinnerModal, speechEnabled, timers>>
    /\ UserStep
    /\ UNCHANGED <<volume, isDarkMode, storage, audioAvailable,
                   speechAvailable>>
    /\ Rerender

\* Math.max(0, Math.min(1, newVolume)), in tenths
ClampVolume(newVolume) ==
    IF newVolume < 0 THEN 0
    ELSE IF newVolume > MaxVolume THEN MaxVolume
    ELSE newVolume

\* adjustVolume(newVolume), from the volume slider or the arrow, + and -
\* keys; nothing saves the volume
adjustVolume(newVolume) ==
    /\ volume' = ClampVolume(newVolume)
    /\ isMuted' = IF ClampVolume(newVolume) = 0 THEN TRUE
                  ELSE IF isMuted THEN FALSE
                  ELSE isMuted
    /\ events' = {}
    /\ lastStep' = Input
    /\ UNCHANGED <<names, isSpinning, winner, currentRotation,
                   showConfetti, highlightedSegment, spinIntensity,
                   spinProgress, isResetting, spinTimer, spinDurationLimit,
                   showWinnerModal, speechEnabled, timers>>
    /\ UserStep
    /\ UNCHANGED <<animationType, isDarkMode, storage, audioAvailable,
                   speechAvailable>>
    /\ Rerender

\* onToggleDarkMode of the navbar switch, and the effect that saves the theme
toggleDarkMode ==
    /\ isDarkMode' = ~isDarkMode
    /\ storage' = StorageAfterEffects(storage, isDarkMode', speechEnabled)
    /\ events' = {}
    /\ lastStep' = Input
    /\ UNCHANGED <<names, isSpinning, winner, currentRotation,
                   showConfetti, highlightedSegment, spinIntensity,
                   spinProgress, isResetting, isMuted, spinTimer,
                   spinDurationLimit, showWinnerModal, speechEnabled, timers>>
    /\ UserStep
    /\ UNCHANGED <<animationType, volume, audioAvailable, speechAvailable>>
    /\ Rerender

\* 'Reset to Default' of the settings dialog
resetSettings ==
    /\ spinDurationLimit' = DefaultSpinDurationLimit
    /\ volume' = DefaultVolume
    /\ isMuted' = FALSE
    /\ events' = {}
    /\ lastStep' = Input
    /\ UNCHANGED <<names, isSpinning, winner, currentRotation,
                   showConfetti, highlightedSegment, spinIntensity,
                   spinProgress, isResetting, spinTimer, showWinnerModal,
                   speechEnabled, timers>>
    /\ UserStep
    /\ UNCHANGED <<animationType, isDarkMode, storage, audioAvailable,
                   speechAvailable>>
    /\ Rerender

\* the page is loaded again: every timer is gone, the state cells take their
\* initial values, those with a saved value what local storage holds
Restart ==
    /\ UserStep
    /\ names' = InitialNames
    /\ isSpinning' = FALSE
    /\ winner' = NoWinner
    /\ currentRotation' = 0
    /\ showConfetti' = FALSE
    /\ highlightedSegment' = NoSegment
    /\ spinIntensity' = "normal"
    /\ spinProgress' = 0
    /\ isResetting' = FALSE
    /\ isMuted' = FALSE
    /\ spinTimer' = 0
    /\ spinDurationLimit' = InitialSpinDurationLimit(storage)
    /\ showWinnerModal' = FALSE
    /\ speechEnabled' = InitialSpeechEnabled(storage)
    /\ spinWheelSpeech' = InitialSpeechEnabled(storage)
    /\ timers' = <<>>
    /\ events' = {}
    /\ lastStep' = Step("restart", NoTimer)
    /\ animationType' = "elastic"
    /\ volume' = DefaultVolume
    /\ isDarkMode' = InitialDarkMode(storage)
    /\ storage' = StorageAfterEffects(storage, InitialDarkMode(storage),
                                      InitialSpeechEnabled(storage))
    /\ UNCHANGED <<audioAvailable, speechAvailable>>

-----------------------------------------------------------------------------
(* The component *)

\* the inputs of removeName and handleDragEnd the model tries
RemoveChoices == {0}
DragChoices == {<<0, 1>>}

\* the spin, its intervals and its timeouts
NextSpin ==
    \/ SpinButton
    \/ \E i \in 1..Len(timers) : HighlightTick(i)
    \/ \E i \in 1..Len(timers) : ProgressTick(i)
    \/ \E i \in 1..Len(timers) : TimerTick(i)
    \/ \E i \in 1..Len(timers) : DurationTimeout(i)
    \/ \E i \in 1..Len(timers) : CelebrateTimeout(i)
    \/ \E i \in 1..Len(timers) : ConfettiTimeout(i)

\* the controls that reset the wheel, and the winner modal
NextReset ==
    \/ \E i \in 1..Len(timers) : ResetTimeout(i)
    \/ ResetButton
    \/ SpinAgainButton
    \/ DismissWinnerModal
    \/ handleCreateNewWheel

\* the controls of the name list
NextNames ==
    \/ \E text \in TypedTexts : addName(text)
    \/ \E index \in RemoveChoices : removeName(index)
    \/ \E move \in DragChoices : handleDragEnd(move[1], move[2])

\* the controls of the settings
NextSettings ==
    \/ \E limit \in DurationChoices : setSpinDurationLimit(limit)
    \/ toggleSpeech
    \/ toggleMute
    \/ \E intensity \in Intensities : setSpinIntensity(intensity)

\* the spin engine with the controls that act on it, and every timer
\* callback
Next == NextSpin \/ NextReset \/ NextNames \/ NextSettings

Spec == Init /\ [][Next]_vars

-----------------------------------------------------------------------------
(* The component with its preferences and page loads *)

\* the inputs of adjustVolume the model tries: the slider and the keys
VolumeInputs == VolumeChoices \cup {volume + VolumeStep, volume - VolumeStep}

NextPreferences ==
    \/ \E type \in AnimationChoices : setAnimationType(type)
    \/ \E newVolume \in VolumeInputs : adjustVolume(newVolume)
    \/ toggleDarkMode
    \/ resetSettings
    \/ Restart

NextAll == Next \/ NextPreferences

\* the freshly mounted component, three user inputs left
InitPreferences ==
    /\ names = InitialNames
    /\ isSpinning = FALSE
    /\ winner = NoWinner
    /\ currentRotation = 0
    /\ showConfetti = FALSE
    /\ highlightedSegment = NoSegment
    /\ spinIntensity = "normal"
    /\ spinProgress = 0
    /\ isResetting = FALSE
    /\ isMuted = FALSE
    /\ spinTimer = 0
    /\ spinDurationLimit = InitialSpinDurationLimit(EmptyStorage)
    /\ showWinnerModal = FALSE
    /\ speechEnabled = InitialSpeechEnabled(EmptyStorage)
    /\ spinWheelSpeech = InitialSpeechEnabled(EmptyStorage)
    /\ timers = <<>>
    /\ events = {}
    /\ userSteps = MaxUserSteps - 3
    /\ lastStep = Step("none", NoTimer)
    /\ animationType = "elastic"
    /\ volume = DefaultVolume
    /\ isDarkMode = InitialDarkMode(EmptyStorage)
    /\ storage = StorageAfterEffects(EmptyStorage,
                                     InitialDarkMode(EmptyStorage),
                                     InitialSpeechEnabled(EmptyStorage))
    /\ audioAvailable = TRUE
    /\ speechAvailable = TRUE

SpecAll == InitPreferences /\ [][NextAll]_vars

-----------------------------------------------------------------------------
(* The component with the browser's timers firing *)

\* a registered timeout runs its callback
TimeoutFires ==
    \E i \in 1..Len(timers) :
        \/ DurationTimeout(i)
        \/ CelebrateTimeout(i)
        \/ ConfettiTimeout(i)
        \/ ResetTimeout(i)

\* the freshly mounted component, three user inputs left; the browser runs
\* the callback of every timeout that is due
SpecTimers == InitPreferences /\ [][Next]_vars /\ WF_vars(TimeoutFires)

-----------------------------------------------------------------------------
(* The component some seconds into a long spin *)

\* the number of 100 ms ticks after which a spin has run for the shortest
\* limit the settings offer
ElapsedTicks == MinSpinDurationLimit * (MsPerSecond \div TickMs)

\* the state ElapsedTicks ticks of each interval after these inputs to the
\* freshly mounted component: the limit was set to its maximum and the
\* wheel was spun (three turns, offset 45); two user inputs are left
InitMidSpin ==
    /\ names = InitialNames
    /\ isSpinning = TRUE
    /\ winner = NoWinner
    /\ currentRotation = 0
    /\ showConfetti = FALSE
    /\ highlightedSegment \in HighlightDraws(Len(InitialNames))
    /\ spinIntensity = "normal"
    /\ spinProgress = ElapsedTicks * ProgressStep(MaxSpinDurationLimit)
    /\ isResetting = FALSE
    /\ isMuted = FALSE
    /\ spinTimer = ElapsedTicks * TimerStepTenths
    /\ spinDurationLimit = MaxSpinDurationLimit
    /\ showWinnerModal = FALSE
    /\ speechEnabled = TRUE
    /\ spinWheelSpeech = TRUE
    /\ animationType = "elastic"
    /\ volume = DefaultVolume
    /\ isDarkMode = TRUE
    /\ storage = StorageAfterEffects(EmptyStorage, TRUE, TRUE)
    /\ audioAvailable = TRUE
    /\ speechAvailable = TRUE
    /\ timers = << DurationTimer(TotalRotation(0, 3 * FullTurn, 45)) >>
    /\ events = {}
    /\ userSteps = MaxUserSteps - 2
    /\ lastStep = Step("timer", DurationTimer(TotalRotation(0, 3 * FullTurn, 45)))

SpecMidSpin == InitMidSpin /\ [][Next]_vars

-----------------------------------------------------------------------------
(* The component in a browser that may lack the audio or the speech API *)

\* the freshly mounted component in each of the four browsers, three user
\* inputs left
InitAnyBrowser ==
    /\ names = InitialNames
    /\ isSpinning = FALSE
    /\ winner = NoWinner
    /\ currentRotation = 0
    /\ showConfetti = FALSE
    /\ highlightedSegment = NoSegment
    /\ spinIntensity = "normal"
    /\ spinProgress = 0
    /\ isResetting = FALSE
    /\ isMuted = FALSE
    /\ spinTimer = 0
    /\ spinDurationLimit = InitialSpinDurationLimit(EmptyStorage)
    /\ showWinnerModal = FALSE
    /\ speechEnabled = InitialSpeechEnabled(EmptyStorage)
    /\ spinWheelSpeech = InitialSpeechEnabled(EmptyStorage)
    /\ timers = <<>>
    /\ events = {}
    /\ userSteps = MaxUserSteps - 3
    /\ lastStep = Step("none", NoTimer)
    /\ animationType = "elastic"
    /\ volume = DefaultVolume
    /\ isDarkMode = InitialDarkMode(EmptyStorage)
    /\ storage = StorageAfterEffects(EmptyStorage,
                                     InitialDarkMode(EmptyStorage),
                                     InitialSpeechEnabled(EmptyStorage))
    /\ audioAvailable \in BOOLEAN
    /\ speechAvailable \in BOOLEAN

SpecAnyBrowser == InitAnyBrowser /\ [][Next]_vars

-----------------------------------------------------------------------------
(* The winner computation over every wheel size *)

Letters ==
    << "A", "B", "C", "D", "E", "F", "G", "H", "I", "J",
       "K", "L", "M", "N", "O", "P", "Q", "R", "S", "T" >>

\* a list of n distinct names
WheelOf(n) == [k \in 1..n |-> <<Letters[k]>>]

\* values of currentRotation a spin may start from: the initial one and the
\* total of an earlier spin
PriorRotations == {0, TotalRotation(0, 3 * FullTurn, 100)}

\* the component with a list of any size the wheel can spin, any intensity
\* selected and a prior rotation, one user input left
InitCalc ==
    /\ \E n \in MinNamesToSpin..MaxNames : names = WheelOf(n)
    /\ isSpinning = FALSE
    /\ winner = NoWinner
    /\ currentRotation \in PriorRotations
    /\ showConfetti = FALSE
    /\ highlightedSegment = NoSegment
    /\ spinIntensity \in Intensities
    /\ spinProgress = 0
    /\ isResetting = FALSE
    /\ isMuted = FALSE
    /\ spinTimer = 0
    /\ spinDurationLimit = DefaultSpinDurationLimit
    /\ showWinnerModal = FALSE
    /\ speechEnabled = TRUE
    /\ spinWheelSpeech = TRUE
    /\ timers = <<>>
    /\ events = {}
    /\ userSteps = MaxUserSteps - 1
    /\ lastStep = Step("none", NoTimer)
    /\ animationType = "elastic"
    /\ volume = DefaultVolume
    /\ isDarkMode = TRUE
    /\ storage = StorageAfterEffects(EmptyStorage, TRUE, TRUE)
    /\ audioAvailable = TRUE
    /\ speechAvailable = TRUE

\* one spin with any draw, and its timeouts
NextCalc ==
    \/ SpinButtonAnyDraw
    \/ \E i \in 1..Len(timers) : DurationTimeout(i)
    \/ \E i \in 1..Len(timers) : CelebrateTimeout(i)
    \/ \E i \in 1..Len(timers) : ConfettiTimeout(i)

SpecCalc == InitCalc /\ [][NextCalc]_vars

-----------------------------------------------------------------------------
(* The segments of every wheel the name list can hold *)

\* the component with a list of any length, empty as after 'Create New
\* Wheel' up to full, and two user inputs left
InitSegments ==
    /\ \E n \in 0..MaxNames : names = WheelOf(n)
    /\ isSpinning = FALSE
    /\ winner = NoWinner
    /\ currentRotation = 0
    /\ showConfetti = FALSE
    /\ highlightedSegment = NoSegment
    /\ spinIntensity = "normal"
    /\ spinProgress = 0
    /\ isResetting = FALSE
    /\ isMuted = FALSE
    /\ spinTimer = 0
    /\ spinDurationLimit = DefaultSpinDurationLimit
    /\ showWinnerModal = FALSE
    /\ speechEnabled = TRUE
    /\ spinWheelSpeech = TRUE
    /\ timers = <<>>
    /\ events = {}
    /\ userSteps = MaxUserSteps - 2
    /\ lastStep = Step("none", NoTimer)
    /\ animationType = "elastic"
    /\ volume = DefaultVolume
    /\ isDarkMode = TRUE
    /\ storage = StorageAfterEffects(EmptyStorage, TRUE, TRUE)
    /\ audioAvailable = TRUE
    /\ speechAvailable = TRUE

SpecSegments == InitSegments /\ [][NextNames]_vars

-----------------------------------------------------------------------------
(* The component with spinWheel also called directly *)

NextCall == Next \/ SpinWheelCall

SpecCall == Init /\ [][NextCall]_vars

-----------------------------------------------------------------------------
(* Vocabulary of the properties *)

\* the state cells of the component
StateCells ==
    <<names, isSpinning, winner, currentRotation, showConfetti,
      highlightedSegment, spinIntensity, spinProgress, isResetting, isMuted,
      spinTimer, spinDurationLimit, showWinnerModal, speechEnabled>>

\* the lifecycle phase, read off isSpinning and winner
Phase ==
    IF isSpinning
    THEN IF winner = NoWinner THEN "Spinning" ELSE "Resolving"
    ELSE IF winner = NoWinner THEN "Idle" ELSE "Announcing"

\* the steps in which a spin was requested: a click the buttons ignored, a
\* call spinWheel rejected, a call that started a spin
SpinRequests == {"spin:ignored", "spin:rejected", "spin:started"}
SpinWheelCalls == {"spin:rejected", "spin:started"}

\* the callbacks of the three intervals of a spin
IntervalTicks == {"highlight", "progress", "timer"}

-----------------------------------------------------------------------------
(* Properties *)

\* C1: when a spin is reset before its duration timer fires, no winner is
\* revealed or announced for it afterwards: after the duration callback of a
\* discarded spin the phase is still Idle, there is no winner, no winner
\* modal, no confetti and no announcement.
C1_DiscardedSpinNotRevealed ==
    (lastStep.kind = "duration" /\ lastStep.discarded)
        => /\ Phase = "Idle"
           /\ winner = NoWinner
           /\ ~showWinnerModal
           /\ ~showConfetti
           /\ currentRotation = 0

\* C2: in every reachable state there is at most one pending duration timer.
C2_AtMostOneDurationTimer == Cardinality(Pending({"duration"})) <= 1

\* C3: the phase only moves Idle -> Spinning -> Resolving -> Announcing ->
\* Idle; no step makes another phase transition.  The return to Idle that a
\* reset forces from Spinning or Resolving is granted here, so that what is
\* refuted is a transition no reading of the lifecycle allows.
C3_PhaseCycle ==
    [][Phase' # Phase =>
          <<Phase, Phase'>> \in { <<"Idle", "Spinning">>,
                                  <<"Spinning", "Resolving">>,
                                  <<"Resolving", "Announcing">>,
                                  <<"Announcing", "Idle">>,
                                  <<"Spinning", "Idle">>,
                                  <<"Resolving", "Idle">> }]_vars

\* C4: after a reset, no tick of the highlight, progress or timer interval
\* of the discarded spin changes highlightedSegment, spinProgress or
\* spinTimer.
C4_NoTickAfterReset ==
    [][(lastStep'.kind \in IntervalTicks /\ lastStep'.discarded)
          => UNCHANGED <<highlightedSegment, spinProgress, spinTimer>>]_vars

\* C5: for every list of 2 to 20 names, every prior rotation, spin count and
\* random offset, the index the duration callback computes is at least 0
\* and less than the number of names, and the winner is the name at it.
C5_WinningIndexInRange ==
    lastStep.kind = "duration"
        => /\ highlightedSegment >= 0
           /\ highlightedSegment < Len(names)
           /\ winner = ArrayAt(names, highlightedSegment)
           /\ winner # NoWinner

C5_Witness ==
    /\ lastStep.kind = "duration"
    /\ Len(names) = 20
    /\ highlightedSegment = 19

\* C6: the winning index is floor(((360 - (R mod 360)) mod 360) / (360/N))
\* for the total rotation R and N names, and the segment createSegments
\* gives that index spans the reflected angle: start <= reflected < end.
C6_WinnerUnderPointer ==
    lastStep.kind = "duration"
        => LET R == currentRotation
               N == Len(names)
               reflected == (360 - (R % 360)) % 360
               index == highlightedSegment
               segments == createSegments(names)
           IN  /\ index = (reflected * N) \div 360
               /\ index + 1 \in DOMAIN segments
               /\ segments[index + 1].startAngle.num
                      <= reflected * segments[index + 1].startAngle.den
               /\ reflected * segments[index + 1].endAngle.den
                      < segments[index + 1].endAngle.num
               /\ winner = segments[index + 1].name

\* a reveal where the segment holding R mod 360 is another one
C6_Witness ==
    /\ lastStep.kind = "duration"
    /\ highlightedSegment # ((currentRotation % 360) * Len(names)) \div 360

\* C7: the winner the duration callback reveals is the entry the total
\* rotation pointed at in the list as it was when the spin started, whatever
\* ticks, settings changes and list changes happened in between.
C7_OutcomeFixedAtStart ==
    lastStep.kind = "duration" => winner = lastStep.outcome

\* a reveal, of a spin no reset discarded, after the list was changed so
\* that the index now holds another entry
C7_Witness ==
    /\ lastStep.kind = "duration"
    /\ ~lastStep.discarded
    /\ winner # NoWinner
    /\ ArrayAt(names, highlightedSegment) # winner

\* C8: no step taken while isSpinning is true changes the name list.
C8_NamesFrozenWhileSpinning == [][isSpinning => names' = names]_vars

\* C9: a call of spinWheel with fewer than 2 names shows the 'Not enough
\* names' notification, starts no timer and leaves every state cell as it
\* was.
C9_FewerThanTwoNamesRejected ==
    [][(lastStep'.kind \in SpinWheelCalls /\ Len(names) < 2)
          => /\ events' = {"toast:Not enough names"}
             /\ timers' = timers
             /\ StateCells' = StateCells]_vars

C9_Witness ==
    /\ lastStep.kind = "spin:rejected"
    /\ Len(names) < 2
    /\ events = {"toast:Not enough names"}

\* C10: a spin request made while isSpinning is true draws no rotation,
\* starts no timer, plays no sound and changes no state cell.
C10_SpinRequestWhileSpinningIgnored ==
    [][(isSpinning /\ lastStep'.kind \in SpinRequests)
          => /\ events' = {}
             /\ timers' = timers
             /\ StateCells' = StateCells]_vars

C10_Witness ==
    /\ lastStep.kind = "spin:ignored"
    /\ isSpinning
    /\ Pending({"duration"}) # {}

\* C11: every spin that completes emits each effect of its winner
\* announcement: when the celebration callback of a spin no reset discarded
\* has run, the effects of that step hold the winner sound, the speech and
\* the winner toast that the settings in force when the spin was started
\* call for, the speech whenever it is still enabled.
C11_AnnouncementEmitted ==
    (lastStep.kind = "celebrate" /\ ~lastStep.discarded /\ speechEnabled)
        => lastStep.announce \subseteq events

\* C12: for every prior rotation, every intensity and every draw, the total
\* rotation a started spin is given is strictly greater than the rotation it
\* starts from, and the reveal of the spin leaves currentRotation larger
\* than it was.
C12_SpinMovesForward ==
    [][/\ lastStep'.kind = "spin:started"
              => \A i \in Pending({"duration"})' :
                     timers'[i].total > currentRotation
       /\ lastStep'.kind = "duration"
              => currentRotation' > currentRotation]_vars

\* the reveal of the shortest spin there is: gentle, two turns, offset 0,
\* started from the total of an earlier spin
C12_Witness ==
    /\ lastStep.kind = "duration"
    /\ spinIntensity = "gentle"
    /\ currentRotation = TotalRotation(TotalRotation(0, 3 * FullTurn, 100),
                                       intensityConfig["gentle"].minSpins
                                           * FullTurn, 0)

\* C13: resetWheel run directly after resetWheel leaves every cell it
\* writes as the first run left it: rotation, winner, highlight, confetti,
\* progress, timer, isSpinning, animation type, intensity and isResetting,
\* and the names when the same control is used twice; isResetting is false
\* again once no reset delay is pending.
C13_ResetIdempotent ==
    [][/\ lastStep'.again
              => /\ UNCHANGED <<currentRotation, winner, highlightedSegment,
                                showConfetti, spinProgress, spinTimer,
                                isSpinning, animationType, spinIntensity,
                                isResetting>>
                 /\ lastStep'.kind = lastStep.kind => names' = names
       /\ Pending({"reset"})' = {} => ~isResetting']_vars

\* two resets and nothing else since the component was mounted, so that the
\* first one was invoked in the Idle phase
C13_Witness ==
    /\ lastStep.again
    /\ userSteps = MaxUserSteps - 1
    /\ Phase = "Idle"
    /\ Cardinality(Pending({"reset"})) = 2

\* C14: leaving the announcement of a winner by 'Spin Again' retains the
\* accumulated rotation: the step of the winner modal's 'Spin Again' button
\* leaves currentRotation as it was.
C14_SpinAgainRetainsRotation ==
    [][lastStep'.kind = "reset:spinagain"
          => currentRotation' = currentRotation]_vars

\* C15: the confetti shown for a winner stays visible for its own 5000 ms
\* window: a confetti timeout that hides visible confetti is the one of the
\* reveal that showed it, so no later confetti timeout is left pending.
C15_ConfettiOwnWindow ==
    [][(lastStep'.kind = "confetti" /\ showConfetti)
          => Pending({"confetti"})' = {}]_vars

\* C16: with the names Alice, Bob, Charlie, Diana, prior rotation 0, three
\* turns and a random offset of 45 degrees, the total rotation is 1125, the
\* normalized angle is 315, the winning index is 3 and the winner is Diana.
\* The spin is the first input to the freshly mounted component.
C16_ConcreteScenario ==
    (/\ lastStep.kind = "duration"
     /\ userSteps = 1
     /\ currentRotation = TotalRotation(0, 3 * FullTurn, 45))
        => /\ names = <<Alice, Bob, Charlie, Diana>>
           /\ currentRotation = 1125
           /\ NormalizedAngle(currentRotation) = 315
           /\ highlightedSegment = 3
           /\ winner = Diana

C16_Witness ==
    /\ lastStep.kind = "duration"
    /\ userSteps = 1
    /\ currentRotation = 1125
    /\ winner = Diana

\* C17: when the total rotation of a spin is an exact multiple of 360
\* degrees the normalized angle is 0, the winning index is 0 and the first
\* name wins; the index is never the number of names or beyond.
C17_FullTurnSelectsFirst ==
    (lastStep.kind = "duration" /\ currentRotation % FullTurn = 0)
        => /\ NormalizedAngle(currentRotation) = 0
           /\ highlightedSegment = 0
           /\ highlightedSegment < Len(names)
           /\ winner = names[1]

\* a whole number of turns from rotation 0 on the largest wheel
C17_Witness ==
    /\ lastStep.kind = "duration"
    /\ currentRotation = 3 * FullTurn
    /\ Len(names) = MaxNames
    /\ winner = names[1]

\* C18: for every name list of length N >= 1 the segments partition
\* [0, 360): segment 0 starts at 0, segment N-1 ends at 360, each segment
\* ends where the next one starts, every segment is 360/N wide and segment
\* i carries names[i]; for N = 0 there are no segments.
C18_SegmentsPartition ==
    LET segments == createSegments(names)
        N == Len(names)
        Same(a, b) == a.num * b.den = b.num * a.den
        Width(s) == Rat(s.endAngle.num * s.startAngle.den
                            - s.startAngle.num * s.endAngle.den,
                        s.endAngle.den * s.startAngle.den)
    IN  /\ Len(segments) = N
        /\ N >= 1 =>
              /\ Same(segments[1].startAngle, Rat(0, 1))
              /\ Same(segments[N].endAngle, Rat(360, 1))
              /\ \A i \in 1..(N - 1) :
                     Same(segments[i].endAngle, segments[i + 1].startAngle)
              /\ \A i \in 1..N :
                     /\ Same(Width(segments[i]), Rat(360, N))
                     /\ segments[i].name = names[i]

\* a wheel of seven names, whose segment angle is no whole number, after
\* the list was edited
C18_Witness ==
    /\ Len(names) = 7
    /\ lastStep.kind = "input"
    /\ Len(createSegments(names)) = 7

\* C19: each persisted preference survives a restart of the component:
\* the state a page load mounts has the theme, the volume, the
\* spin-duration limit and the speech flag the component had before it.
C19_PreferencesSurviveRestart ==
    [][lastStep'.kind = "restart"
          => /\ isDarkMode' = isDarkMode
             /\ speechEnabled' = speechEnabled
             /\ spinDurationLimit' = spinDurationLimit
             /\ volume' = volume]_vars

\* C20: whether or not the browser has the audio API and speech synthesis,
\* a spin that is started schedules its duration timer, the duration
\* callback reveals the winner and schedules the celebration, and the
\* celebration returns isSpinning to false and raises the winner toast; no
\* handler is left by an exception, and an absent capability only removes
\* its own effect.
C20_AbsentCapabilityNeverFailsSpin ==
    [][/\ lastStep'.kind = "spin:started"
              => /\ isSpinning'
                 /\ Cardinality(Pending({"duration"})')
                        = Cardinality(Pending({"duration"})) + 1
       /\ lastStep'.kind = "duration"
              => /\ winner' # NoWinner
                 /\ winner' = lastStep'.outcome
                 /\ Pending({"celebrate"})' # {}
       /\ lastStep'.kind = "celebrate"
              => /\ ~isSpinning'
                 /\ "toast:We have a winner" \in events'
       /\ Thrown \notin events'
       /\ ~audioAvailable => events' \cap {"sound:spin", "sound:winner"} = {}
       /\ ~speechAvailable => "speech:winner" \notin events']_vars

\* the celebration of the only spin, sound on and speech enabled, in a
\* browser with neither capability: the toast alone
C20_Witness ==
    /\ lastStep.kind = "celebrate"
    /\ userSteps = MaxUserSteps - 2
    /\ ~audioAvailable
    /\ ~speechAvailable
    /\ ~SoundOff
    /\ speechEnabled
    /\ ~isSpinning
    /\ winner # NoWinner
    /\ events = {"toast:We have a winner"}

\* C21: for a fixed number N of names, any prior rotation and any spin
\* count, as the random offset ranges over the whole degrees of one full
\* turn every winning index 0..N-1 is selected for an equal share of the
\* offsets: exactly 360/N of them when N divides 360, and otherwise the
\* number of whole degrees in an arc of 360/N, which is 360/N rounded down
\* or up.  The shares add up to the full turn, and the reveal of a spin
\* selects the index counted here.
C21_EqualShares ==
    LET N == Len(names)
        Offsets(spinDeg, index) ==
            { randomAngle \in AllAngleDraws :
                  WinnerIndex(TotalRotation(currentRotation, spinDeg,
                                            randomAngle), N) = index }
        Share(spinDeg, index) == Cardinality(Offsets(spinDeg, index))
    IN  /\ lastStep.kind = "none"
              => \A spinDeg \in AllSpinDraws(spinIntensity) :
                     /\ \A index \in 0..(N - 1) :
                            /\ N * Share(spinDeg, index) > FullTurn - N
                            /\ N * Share(spinDeg, index) < FullTurn + N
                            /\ FullTurn % N = 0
                                   => N * Share(spinDeg, index) = FullTurn
                     /\ UNION { Offsets(spinDeg, index) :
                                    index \in 0..(N - 1) } = AllAngleDraws
        /\ lastStep.kind = "duration"
              => highlightedSegment = WinnerIndex(currentRotation, N)

\* the reveal of the last index on a wheel of seven names, whose arcs are
\* no whole number of degrees, after a spin from a prior rotation
C21_Witness ==
    /\ lastStep.kind = "duration"
    /\ Len(names) = 7
    /\ highlightedSegment = 6
    /\ currentRotation > TotalRotation(0, 3 * FullTurn, 100) + FullTurn

\* C22: the name list holds no entry twice, whatever names were added,
\* removed, dragged or cleared by 'Create New Wheel': every step leaves the
\* entries distinct, an add that changes the list appends one entry that
\* was not in it, and an add of a name that is already present, once
\* trimmed, leaves the list as it was.
C22_NamesUnique ==
    [][LET Unique(list) ==
               \A i, j \in 1..Len(list) : list[i] = list[j] => i = j
       IN  /\ Unique(names)
           /\ Unique(names')
           /\ (lastStep'.kind = "add" /\ names' # names)
                  => /\ names' = Append(names, names'[Len(names')])
                     /\ ~Includes(names, names'[Len(names')])
           /\ "toast:Duplicate name" \in events' => names' = names]_vars

\* a name typed with spaces around it is rejected as a duplicate of an
\* entry added earlier, on a list that was reordered in between
C22_Witness ==
    /\ lastStep.kind = "add"
    /\ events = {"toast:Duplicate name"}
    /\ Includes(names, Eve)
    /\ names[Len(names)] # Eve

\* C23: from the reveal of a winner until the next spin or reset the
\* highlighted segment stays the winning index and spinProgress and
\* spinTimer stay 0: while a winner is displayed, no step other than the
\* start of a spin, a reset or a reveal changes one of the three.
C23_RevealStays ==
    [][(/\ winner # NoWinner
        /\ lastStep'.kind \notin {"spin:started", "duration"} \cup ResetInputs)
          => UNCHANGED <<highlightedSegment, spinProgress, spinTimer>>]_vars

\* C24: the winner-announcement effects are emitted by the celebration
\* callback, after the 500 ms settle delay, in the step that sets isSpinning
\* to false, and never before it: the winner sound, the speech and the
\* start of the confetti happen in no other step.
C24_AnnouncedAfterSettleDelay ==
    [][(\/ "sound:winner" \in events'
        \/ "speech:winner" \in events'
        \/ (showConfetti' /\ ~showConfetti))
          => (lastStep'.kind = "celebrate" /\ ~isSpinning')]_vars

\* C25: the configuration is read once, when the spin starts: the duration
\* timeout of a spin is registered with the spin-duration limit of that
\* moment, in milliseconds; a step that changes the limit, the intensity or
\* the animation type leaves the delay, the total rotation and the captured
\* names of every pending duration timeout as they were; and the reveal
\* shows the winner fixed at the start.
C25_ConfigurationReadAtStart ==
    [][LET Config == <<spinDurationLimit, spinIntensity, animationType>>
           Captured(queue) ==
               [i \in { j \in 1..Len(queue) : queue[j].kind = "duration" }
                    |-> <<queue[i].delay, queue[i].limit, queue[i].total,
                          queue[i].names, queue[i].outcome>>]
       IN  /\ lastStep'.kind = "spin:started"
                  => /\ timers'[Len(timers')].kind = "duration"
                     /\ timers'[Len(timers')].delay
                            = spinDurationLimit * MsPerSecond
           /\ (Config' # Config /\ lastStep'.kind # "restart")
                  => Captured(timers') = Captured(timers)
           /\ lastStep'.kind = "duration"
                  => winner' = lastStep'.outcome]_vars

\* a spin in flight whose limit was changed in the settings after it
\* started
C25_Witness ==
    \E i \in Pending({"duration"}) :
        /\ timers[i].limit # spinDurationLimit
        /\ timers[i].delay = timers[i].limit * MsPerSecond
        /\ ~timers[i].discarded
        /\ isSpinning

\* C26: every spin that starts eventually completes: once a spin has
\* started, the celebration callback eventually runs, sets isSpinning to
\* false and raises the winner toast, and eventually no duration or
\* celebration timeout is pending and the wheel is not spinning, so that a
\* new spin can be requested.  This holds of every spin, reset or not.
C26_SpinCompletes ==
    /\ (lastStep.kind = "spin:started")
           ~> (/\ lastStep.kind = "celebrate"
               /\ ~isSpinning
               /\ "toast:We have a winner" \in events)
    /\ (lastStep.kind = "spin:started")
           ~> (Pending({"duration", "celebrate"}) = {} /\ ~isSpinning)

\* a spin that no reset touched has completed
C26_Witness ==
    /\ lastStep.kind = "celebrate"
    /\ ~lastStep.discarded
    /\ winner # NoWinner
    /\ ~isSpinning
    /\ Pending({"duration", "celebrate"}) = {}

\* C27: whenever a winner is displayed it is a name of the current list and
\* the highlighted segment is the segment that carries it; an edit of the
\* name list made while a winner is displayed keeps it so.
C27_WinnerDisplayConsistent ==
    [][(/\ winner # NoWinner
        /\ ArrayAt(names, highlightedSegment) = winner
        /\ lastStep'.kind \in {"input", "add"})
          => /\ Includes(names', winner')
             /\ highlightedSegment' + 1 \in DOMAIN createSegments(names')
             /\ createSegments(names')[highlightedSegment' + 1].name
                    = winner']_vars

\* C28: the speech setting in force when a spin starts governs its
\* announcement: the celebration callback of a spin speaks exactly when
\* speech was enabled at the moment the spin was started.
C28_SpeechSettingAtStartGoverns ==
    lastStep.kind = "celebrate"
        => ("speech:winner" \in events <=> "speech:winner" \in lastStep.announce)

\* C29: the name list never holds more than 20 entries and never an empty
\* or whitespace-only name; addName appends the trimmed input, and only
\* when it is not empty, not in the list and the list has fewer than 20
\* entries; an add that is rejected leaves the list as it was.
C29_NameListWithinLimits ==
    [][LET last == names'[Len(names')]
       IN  /\ Len(names) <= MaxNames
           /\ Len(names') <= MaxNames
           /\ \A i \in 1..Len(names') : Trim(names'[i]) # <<>>
           /\ (lastStep'.kind = "add" /\ names' # names)
                  => /\ names' = Append(names, last)
                     /\ last = Trim(last)
                     /\ ~Includes(names, last)
                     /\ Len(names) < MaxNames
           /\ (lastStep'.kind = "add" /\ events' # {"toast:Name added"})
                  => names' = names]_vars

\* an add to the full wheel is rejected
C29_Witness ==
    /\ lastStep.kind = "add"
    /\ Len(names) = MaxNames
    /\ events = {"toast:Maximum reached"}

\* C30: in every reachable state the progress indicators are within range:
\* spinProgress is between 0 and 100 percent and spinTimer between 0 and
\* the current spin-duration limit.
C30_IndicatorsWithinRange ==
    /\ 0 <= spinProgress
    /\ spinProgress <= FullProgress * ProgressScale
    /\ 0 <= spinTimer
    /\ spinTimer <= spinDurationLimit * (MsPerSecond \div TickMs)

=============================================================================
